---- MODULE Spec2Model ----
(***************************************************************************)
(* Model of app/hierarchyresolver.py (HierarchyResolver) over the tree of  *)
(* ComponentNode objects it is constructed with.                           *)
(*                                                                         *)
(* The nested dictionaries {node: [{child: [...]}, ...]} are kept as an    *)
(* arena: a node is its identity (ComponentNode.id), 0 is the "Home" root, *)
(* and tree[k] is the ordered list of the children of k.  Every nested     *)
(* dictionary has a single key, so a "subtree" {k: children} is named by   *)
(* its key k.                                                              *)
(***************************************************************************)
EXTENDS Integers, Sequences, FiniteSets, TLC

VARIABLES nodes, tree, type, links, hierarchy_links, runs, status, last

vars == <<nodes, tree, type, links, hierarchy_links, runs, status, last>>

(* ------------------------------ bounds --------------------------------- *)
MaxNodes == 4
MaxPassNodes == 3
MaxType == 2
MaxLinks == 2
MaxRuns == 2

(* ------------------------- Python values -------------------------------- *)
\* None, and the outcome "an exception was raised"
None == -1
Err == -2
Root == 0

(* ------------------------- connection strings --------------------------- *)
\* a str is a sequence of one-character strings
Digits == <<"0", "1", "2", "3", "4", "5", "6", "7", "8", "9">>

IsDigit(c) == \E i \in 1..10 : Digits[i] = c

DigitVal(c) == (CHOOSE i \in 1..10 : Digits[i] = c) - 1

\* str.split("#"): the pieces between the delimiters, empty pieces kept
RECURSIVE split(_, _)
split(s, cur) ==
    IF s = <<>> THEN <<cur>>
    ELSE IF Head(s) = "#" THEN <<cur>> \o split(Tail(s), <<>>)
    ELSE split(Tail(s), Append(cur, Head(s)))

\* int(i) on a piece of digits; anything else raises ValueError
RECURSIVE DigitsVal(_, _)
DigitsVal(s, acc) ==
    IF s = <<>> THEN acc ELSE DigitsVal(Tail(s), 10 * acc + DigitVal(Head(s)))

int(s) ==
    IF s # <<>> /\ \A i \in 1..Len(s) : IsDigit(s[i]) THEN DigitsVal(s, 0) ELSE Err

parse_connection(connection) ==
    LET connection_list == split(connection, <<>>)
        rest == Tail(connection_list)
        ints == [i \in 1..Len(rest) |-> int(rest[i])]
    IN  IF \E i \in 1..Len(ints) : ints[i] = Err
        THEN [ok |-> FALSE, name |-> <<>>, list |-> <<>>]
        ELSE [ok |-> TRUE, name |-> connection_list[1], list |-> ints]

(* ------------------------- tree navigation ------------------------------ *)
getattr(key, attr) == IF attr = "id" THEN key ELSE type[key]

\* __find_node_by_attr on the subtree {key: tr[key]}: the first node in
\* depth-first pre-order whose attribute equals data, or None.  The second
\* component the code returns is the dictionary {found: tr[found]}, which the
\* found node names.
RECURSIVE find_node_by_attr(_, _, _, _), find_in_value(_, _, _, _)
find_node_by_attr(tr, key, attr, data) ==
    IF getattr(key, attr) = data THEN key
    ELSE find_in_value(tr, tr[key], attr, data)

\* mutant: the search returns whatever the first child's subtree yields
find_in_value_first(tr, value, attr, data) ==
    IF value = <<>> THEN None
    ELSE find_node_by_attr(tr, Head(value), attr, data)

find_in_value(tr, value, attr, data) ==
    IF value = <<>> THEN None
    ELSE LET found == find_node_by_attr(tr, Head(value), attr, data)
         IN  IF found # None THEN found
             ELSE find_in_value(tr, Tail(value), attr, data)

\* __get_parent on the subtree {key: tr[key]}
RECURSIVE get_parent_in(_, _, _), get_parent_value(_, _, _, _)
get_parent_in(tr, node, key) == get_parent_value(tr, node, key, tr[key])

get_parent_value(tr, node, key, value) ==
    IF value = <<>> THEN None
    ELSE IF node = Head(value) THEN key
    ELSE LET parent == get_parent_in(tr, node, Head(value))
         IN  IF parent # None THEN parent
             ELSE get_parent_value(tr, node, key, Tail(value))

get_parent(tr, node) == get_parent_in(tr, node, Root)

\* the while loop of get_path_to_root; parent.type on None raises
RECURSIVE path_loop(_, _, _)
path_loop(tr, parent, node_types_list) ==
    IF parent = None THEN [ok |-> FALSE, list |-> <<>>]
    ELSE LET l == Append(node_types_list, type[parent])
         IN  IF type[parent] = 0 THEN [ok |-> TRUE, list |-> l]
             ELSE path_loop(tr, get_parent(tr, parent), l)

\* mutant: the node's own type is not put on the list
get_path_to_root_skip(tr, node, node_types_list) ==
    path_loop(tr, get_parent(tr, node), node_types_list)

get_path_to_root(tr, node, node_types_list) ==
    path_loop(tr, get_parent(tr, node), Append(node_types_list, type[node]))

\* mutant: the search does not widen past the level of the node
sibling_loop_nowiden(tr, current_parent, sibling_node_type) ==
    IF current_parent = None THEN Err
    ELSE LET sibling_node == find_node_by_attr(tr, current_parent, "type", sibling_node_type)
         IN  IF sibling_node # None THEN sibling_node ELSE Err

\* the widening loop of get_sibling_subtree; current_parent.id on None raises
RECURSIVE sibling_loop(_, _, _)
sibling_loop(tr, current_parent, sibling_node_type) ==
    IF current_parent = None THEN Err
    ELSE LET subtree == find_node_by_attr(tr, Root, "id", current_parent)
             sibling_node == find_node_by_attr(tr, subtree, "type", sibling_node_type)
         IN  IF sibling_node # None THEN sibling_node
             ELSE sibling_loop(tr, get_parent(tr, current_parent), sibling_node_type)

\* mutant: the type is searched in the whole tree, whatever the node
get_sibling_subtree_global(tr, node, sibling_node_type) ==
    LET sibling_node == find_node_by_attr(tr, Root, "type", sibling_node_type)
    IN  IF node = Root \/ sibling_node = None THEN Err ELSE sibling_node

get_sibling_subtree(tr, node, sibling_node_type) ==
    LET current_node == find_node_by_attr(tr, Root, "id", node)
    IN  IF current_node = None THEN Err
        ELSE sibling_loop(tr, get_parent(tr, current_node), sibling_node_type)

(* ------------------------- port resolution ------------------------------ *)
\* mutant: a childless node ends the descent only once the list is used up
RECURSIVE resolve_port_exhaust(_, _, _)
resolve_port_exhaust(tr, node_types_list, subtree) ==
    IF node_types_list = <<>> THEN None
    ELSE LET node == find_node_by_attr(tr, subtree, "type",
                                       node_types_list[Len(node_types_list)])
             rest == SubSeq(node_types_list, 1, Len(node_types_list) - 1)
         IN  IF node = None THEN Err
             ELSE IF tr[node] = <<>> /\ rest = <<>> THEN node
             ELSE resolve_port_exhaust(tr, rest, node)

\* __resolve_port: pops the list from its end; unpacking a failed search
\* raises; falling out of the loop returns None
RECURSIVE resolve_port(_, _, _)
resolve_port(tr, node_types_list, subtree) ==
    IF node_types_list = <<>> THEN None
    ELSE LET node == find_node_by_attr(tr, subtree, "type",
                                       node_types_list[Len(node_types_list)])
             rest == SubSeq(node_types_list, 1, Len(node_types_list) - 1)
         IN  IF node = None THEN Err
             ELSE IF tr[node] = <<>> THEN node
             ELSE resolve_port(tr, rest, node)

Raised == [ok |-> FALSE, node |-> None, port |-> <<>>]

\* mutant: the type path of the from port is ignored
resolve_from_port_self(tr, node, connection) ==
    LET p == parse_connection(connection)
    IN  IF ~p.ok THEN Raised
        ELSE [ok |-> TRUE, node |-> node, port |-> p.name]

resolve_from_port(tr, node, connection) ==
    LET p == parse_connection(connection)
    IN  IF ~p.ok THEN Raised
        ELSE IF p.list = <<>> THEN [ok |-> TRUE, node |-> node, port |-> p.name]
        ELSE LET path == get_path_to_root(tr, node, p.list)
                 r == IF path.ok THEN resolve_port(tr, path.list, Root) ELSE Err
             IN  IF r = Err THEN Raised
                 ELSE [ok |-> TRUE, node |-> r, port |-> p.name]

resolve_to_port(tr, node, to_node_type, connection) ==
    LET subtree == get_sibling_subtree(tr, node, to_node_type)
        p == parse_connection(connection)
    IN  IF subtree = Err \/ ~p.ok THEN Raised
        ELSE IF p.list = <<>>
        THEN [ok |-> TRUE,
              node |-> find_node_by_attr(tr, subtree, "type", to_node_type),
              port |-> p.name]
        ELSE LET r == resolve_port(tr, p.list, subtree)
             IN  IF r = Err THEN Raised
                 ELSE [ok |-> TRUE, node |-> r, port |-> p.name]

(* ------------------------- the resolution pass -------------------------- *)
\* the loop over k.links in __resolve_hierarchy; acc carries the list built
\* so far and whether an exception has ended the pass
RECURSIVE resolve_links(_, _, _, _)
resolve_links(tr, k, ls, acc) ==
    IF ~acc.ok \/ ls = <<>> THEN acc
    ELSE LET link == Head(ls)
             f == resolve_from_port(tr, k, link.from_port)
             t == resolve_to_port(tr, k, link.to_node_type, link.to_port)
         IN  IF ~f.ok \/ ~t.ok THEN [out |-> acc.out, ok |-> FALSE]
             ELSE resolve_links(tr, k, Tail(ls),
                      [out |-> Append(acc.out, <<f.node, f.port, t.node, t.port>>),
                       ok |-> TRUE])

\* __resolve_hierarchy on the subtree {key: tr[key]}
RECURSIVE resolve_subtree(_, _, _), resolve_value(_, _, _)
resolve_subtree(tr, key, acc) == resolve_value(tr, tr[key], acc)

\* mutant: the links of a node are resolved after those of its subtree
resolve_value_post(tr, value, acc) ==
    IF ~acc.ok \/ value = <<>> THEN acc
    ELSE LET k == Head(value)
         IN  resolve_value(tr, Tail(value),
                 resolve_links(tr, k, links[k], resolve_subtree(tr, k, acc)))

resolve_value(tr, value, acc) ==
    IF ~acc.ok \/ value = <<>> THEN acc
    ELSE LET k == Head(value)
         IN  resolve_value(tr, Tail(value),
                 resolve_subtree(tr, k, resolve_links(tr, k, links[k], acc)))

resolve_hierarchy(tr, acc) == resolve_subtree(tr, Root, acc)

(* ------------------------- trees the resolver is given ------------------ *)
\* ancestors of i under the parent function par, i included
RECURSIVE Chain(_, _)
Chain(par, i) == IF i = Root THEN {Root} ELSE {i} \cup Chain(par, par[i])

\* parent functions over 0..n-1 whose numbering is the depth-first pre-order
\* of the tree (every ordered tree has exactly one such numbering)
ParentFns(n) ==
    {par \in [1..(n - 1) -> 0..(n - 2)] :
        /\ par[1] = Root
        /\ \A i \in 2..(n - 1) : par[i] \in Chain(par, i - 1)}

RECURSIVE Ascending(_)
Ascending(S) ==
    IF S = {} THEN <<>>
    ELSE LET m == CHOOSE x \in S : \A y \in S : x <= y
         IN  <<m>> \o Ascending(S \ {m})

TreeOf(n, par) ==
    [k \in 0..(n - 1) |-> Ascending({i \in 1..(n - 1) : par[i] = k})]

\* the root is the only node of type 0
TypeFns(n) ==
    {ty \in [0..(n - 1) -> 0..MaxType] :
        ty[Root] = 0 /\ \A i \in 1..(n - 1) : ty[i] # 0}

port_out == <<"o", "u", "t">>
port_in == <<"i", "n">>

LinkSet ==
    { [from_port |-> port_out \o <<"#", "2">>, to_node_type |-> 2, to_port |-> port_in],
      [from_port |-> port_out, to_node_type |-> 1, to_port |-> port_in \o <<"#", "1">>],
      [from_port |-> <<"a">>, to_node_type |-> 2, to_port |-> <<"b">>] }

RECURSIVE SeqsUpTo(_, _)
SeqsUpTo(S, n) ==
    IF n = 0 THEN {<<>>}
    ELSE LET shorter == SeqsUpTo(S, n - 1)
         IN  shorter \cup {Append(q, x) : q \in shorter, x \in S}

\* the lists of declared links of m nodes, at most budget links in all
RECURSIVE LinkLists(_, _)
LinkLists(m, budget) ==
    IF m = 0 THEN {<<>>}
    ELSE UNION { {Append(q, l) : q \in LinkLists(m - 1, budget - Len(l))} :
                 l \in SeqsUpTo(LinkSet, budget) }

\* the Home node declares no link; the tree declares at most MaxLinks links
LinkFns(n) ==
    {[k \in 0..(n - 1) |-> IF k = Root THEN <<>> ELSE q[k]] :
        q \in LinkLists(n - 1, MaxLinks)}

NoCall == [op |-> "none", node |-> None, t |-> 0, conn |-> <<>>,
           ok |-> TRUE, rnode |-> None, rlist |-> <<>>]

PortStrings ==
    { <<"p">>,
      <<"p", "#", "1">>, <<"p", "#", "2">>, <<"p", "#", "3">>,
      <<"p", "#", "1", "#", "2">>, <<"p", "#", "2", "#", "1">>,
      <<"p", "#", "1", "2">>, <<"p", "#", "x">> }

(* ------------------------- the state machine ---------------------------- *)
\* HierarchyResolver(component_tree) on a tree with declared links
Init ==
    \E n \in 2..MaxPassNodes : \E par \in ParentFns(n) :
    \E ty \in TypeFns(n) : \E ls \in LinkFns(n) :
        /\ nodes = 0..(n - 1)
        /\ tree = TreeOf(n, par)
        /\ type = ty
        /\ links = ls
        /\ hierarchy_links = <<>>
        /\ runs = 0
        /\ status = "new"
        /\ last = NoCall

\* HierarchyResolver(component_tree) on a tree without declared links
InitNav ==
    \E n \in 2..MaxNodes : \E par \in ParentFns(n) : \E ty \in TypeFns(n) :
        /\ nodes = 0..(n - 1)
        /\ tree = TreeOf(n, par)
        /\ type = ty
        /\ links = [k \in 0..(n - 1) |-> <<>>]
        /\ hierarchy_links = <<>>
        /\ runs = 0
        /\ status = "new"
        /\ last = NoCall

\* HierarchyResolver(component_tree) on the tree Home -> M1{A, B}, Home -> M2{C};
\* one type more than MaxType, so that A and B can differ and C's type still be
\* absent from M1
M1 == 1
A == 2
B == 3
M2 == 4
C == 5

CrossTypes == 1..(MaxType + 1)

InitCross ==
    \E ty \in [0..5 -> {0} \cup CrossTypes] :
        /\ ty[Root] = 0 /\ \A i \in 1..5 : ty[i] # 0
        /\ nodes = 0..5
        /\ tree = [k \in 0..5 |-> IF k = Root THEN <<M1, M2>>
                                  ELSE IF k = M1 THEN <<A, B>>
                                  ELSE IF k = M2 THEN <<C>> ELSE <<>>]
        /\ type = ty
        /\ links = [k \in 0..5 |-> <<>>]
        /\ hierarchy_links = <<>>
        /\ runs = 0
        /\ status = "new"
        /\ last = NoCall

\* the types a caller asks for: those of the tree, and one no node has
TypeArgs == {type[k] : k \in nodes} \cup {MaxType + 2}

Static == UNCHANGED <<nodes, tree, type, links>>

\* the caller is single-threaded and synchronous: it makes a call once it has
\* taken the result of the one before
Idle == last.op = "none"

TakeResult ==
    /\ last.op # "none"
    /\ last' = NoCall
    /\ UNCHANGED <<hierarchy_links, runs, status>>
    /\ Static

ResolveHierarchy ==
    /\ Idle
    /\ runs < MaxRuns
    /\ LET r == resolve_hierarchy(tree, [out |-> hierarchy_links, ok |-> TRUE])
       IN  /\ hierarchy_links' = r.out
           /\ status' = IF r.ok THEN "ok" ELSE "raised"
    /\ runs' = runs + 1
    /\ last' = [NoCall EXCEPT !.op = "resolve_hierarchy"]
    /\ Static

GetLinks ==
    /\ Idle
    /\ last' = [NoCall EXCEPT !.op = "get_links", !.rlist = hierarchy_links]
    /\ UNCHANGED <<hierarchy_links, runs, status>>
    /\ Static

GetParent ==
    \E n \in nodes :
        /\ Idle
        /\ last' = [NoCall EXCEPT !.op = "get_parent", !.node = n,
                                  !.rnode = get_parent(tree, n)]
        /\ UNCHANGED <<hierarchy_links, runs, status>>
        /\ Static

GetPathToRoot ==
    \E n \in nodes :
        /\ Idle
        /\ LET r == get_path_to_root(tree, n, <<>>)
           IN  last' = [NoCall EXCEPT !.op = "get_path_to_root", !.node = n,
                                      !.ok = r.ok, !.rlist = r.list]
        /\ UNCHANGED <<hierarchy_links, runs, status>>
        /\ Static

GetSiblingSubtree ==
    \E n \in nodes : \E t \in TypeArgs :
        /\ Idle
        /\ LET r == get_sibling_subtree(tree, n, t)
           IN  last' = [NoCall EXCEPT !.op = "get_sibling_subtree", !.node = n,
                                      !.t = t, !.ok = (r # Err),
                                      !.rnode = IF r = Err THEN None ELSE r]
        /\ UNCHANGED <<hierarchy_links, runs, status>>
        /\ Static

ResolveFromPort ==
    \E n \in nodes : \E s \in PortStrings :
        /\ Idle
        /\ LET r == resolve_from_port(tree, n, s)
           IN  last' = [NoCall EXCEPT !.op = "resolve_from_port", !.node = n,
                                      !.conn = s, !.ok = r.ok, !.rnode = r.node,
                                      !.rlist = r.port]
        /\ UNCHANGED <<hierarchy_links, runs, status>>
        /\ Static

ResolveToPort ==
    \E n \in nodes : \E t \in TypeArgs : \E s \in PortStrings :
        /\ Idle
        /\ LET r == resolve_to_port(tree, n, t, s)
           IN  last' = [NoCall EXCEPT !.op = "resolve_to_port", !.node = n,
                                      !.t = t, !.conn = s, !.ok = r.ok,
                                      !.rnode = r.node, !.rlist = r.port]
        /\ UNCHANGED <<hierarchy_links, runs, status>>
        /\ Static

Next == ResolveHierarchy \/ GetLinks \/ TakeResult

NextNav ==
    \/ GetParent
    \/ GetPathToRoot
    \/ GetSiblingSubtree
    \/ ResolveFromPort
    \/ ResolveToPort
    \/ TakeResult

Spec == Init /\ [][Next]_vars

SpecNav == InitNav /\ [][NextNav]_vars

SpecCross == InitCross /\ [][NextNav]_vars

(* ------------------------- notions the claims use ----------------------- *)
Children(tr, k) == {tr[k][i] : i \in 1..Len(tr[k])}

IsLeaf(k) == tree[k] = <<>>

\* the owner of n, read off the child lists
ParentOf(n) == CHOOSE k \in nodes : n \in Children(tree, k)

\* the ancestors of n, nearest first, ending with the root
RECURSIVE AncestorSeq(_)
AncestorSeq(n) ==
    IF n = Root THEN <<>> ELSE <<ParentOf(n)>> \o AncestorSeq(ParentOf(n))

RECURSIVE SubtreeNodes(_, _)
SubtreeNodes(tr, k) == {k} \cup UNION {SubtreeNodes(tr, c) : c \in Children(tr, k)}

\* the nodes of the subtree of k in depth-first pre-order
RECURSIVE PreOrder(_, _), PreOrderAll(_, _)
PreOrder(tr, k) == <<k>> \o PreOrderAll(tr, tr[k])

PreOrderAll(tr, value) ==
    IF value = <<>> THEN <<>>
    ELSE PreOrder(tr, Head(value)) \o PreOrderAll(tr, Tail(value))

IndexMin(I) == CHOOSE i \in I : \A j \in I : i <= j

\* the first node of sequence q that has type t, or None
FirstOfType(q, t) ==
    LET I == {i \in 1..Len(q) : type[q[i]] = t}
    IN  IF I = {} THEN None ELSE q[IndexMin(I)]

SiblingUnique ==
    \A k \in nodes : \A i, j \in 1..Len(tree[k]) :
        i # j => type[tree[k][i]] # type[tree[k][j]]

HasPath(conn) == parse_connection(conn).ok /\ parse_connection(conn).list # <<>>

PathFree(conn) == parse_connection(conn).ok /\ parse_connection(conn).list = <<>>

(* ------------------------- C3 ------------------------------------------- *)
TypesUp(n) ==
    LET chain == <<n>> \o AncestorSeq(n)
    IN  [i \in 1..Len(chain) |-> type[chain[i]]]

\* C3: for a non-root node n, get_parent(n) is the owner of n, the chain of
\* owners ends at the root, and get_path_to_root(n, []) is the list of the types
\* of n, its parent, its grandparent, ..., the root, whose last and only zero
\* entry is the root's.
C3_PathToRoot ==
    /\ (last.op = "get_parent" /\ last.node # Root) => last.rnode = ParentOf(last.node)
    /\ (last.op = "get_path_to_root" /\ last.node # Root) =>
          LET l == last.rlist
              up == AncestorSeq(last.node)
          IN  /\ last.ok
              /\ up[Len(up)] = Root
              /\ Len(up) < Cardinality(nodes)
              /\ l = TypesUp(last.node)
              /\ l[Len(l)] = 0
              /\ \A i \in 1..(Len(l) - 1) : l[i] # 0

C3_Witness ==
    /\ last.op = "get_path_to_root"
    /\ last.node # Root
    /\ Len(last.rlist) >= 3

(* ------------------------- C5 ------------------------------------------- *)
\* the nodes a descent meets: each search is scoped to the node found before
RECURSIVE Descent(_, _, _)
Descent(tr, node_types_list, key) ==
    IF node_types_list = <<>> THEN <<>>
    ELSE LET found == FirstOfType(PreOrder(tr, key),
                                  node_types_list[Len(node_types_list)])
         IN  IF found = None THEN <<>>
             ELSE <<found>> \o Descent(tr,
                      SubSeq(node_types_list, 1, Len(node_types_list) - 1), found)

\* the list and the starting subtree of the descent the last call made
DescentList ==
    IF last.op = "resolve_from_port"
    THEN parse_connection(last.conn).list \o TypesUp(last.node)
    ELSE parse_connection(last.conn).list

DescentStart ==
    IF last.op = "resolve_from_port" THEN Root
    ELSE get_sibling_subtree(tree, last.node, last.t)

DescentCall ==
    /\ last.op \in {"resolve_from_port", "resolve_to_port"}
    /\ last.node # Root
    /\ HasPath(last.conn)
    /\ last.op = "resolve_to_port" => get_sibling_subtree(tree, last.node, last.t) # Err

LeafSteps == {i \in 1..Len(Descent(tree, DescentList, DescentStart)) :
                 IsLeaf(Descent(tree, DescentList, DescentStart)[i])}

\* C5: when the descent of a resolve_from_port or resolve_to_port call with a
\* type path meets a childless node, the call returns the first such node and
\* does not raise, however many path elements are left.
C5_LeafTruncation ==
    (DescentCall /\ LeafSteps # {}) =>
        /\ last.ok
        /\ last.rnode = Descent(tree, DescentList, DescentStart)[IndexMin(LeafSteps)]

\* a leaf is returned with at least two path elements left over
C5_Witness ==
    /\ DescentCall
    /\ LeafSteps # {}
    /\ IndexMin(LeafSteps) + 2 <= Len(DescentList)
    /\ last.ok /\ IsLeaf(last.rnode)

(* ------------------------- C7 ------------------------------------------- *)
Perms(q) ==
    {[i \in 1..Len(q) |-> q[f[i]]] :
        f \in {g \in [1..Len(q) -> 1..Len(q)] :
                  \A i, j \in 1..Len(q) : i # j => g[i] # g[j]}}

\* the trees that differ from tr only in the order of children
RECURSIVE ReorderingsOn(_, _)
ReorderingsOn(tr, S) ==
    IF S = {} THEN {<<>>}
    ELSE LET k == CHOOSE x \in S : TRUE
         IN  {(k :> q) @@ f : q \in Perms(tr[k]), f \in ReorderingsOn(tr, S \ {k})}

Reorderings(tr) == ReorderingsOn(tr, nodes)

OneOfType(t) == Cardinality({k \in nodes : type[k] = t}) = 1

\* C7: when exactly one node of the tree has the target type, get_sibling_subtree
\* and resolve_to_port with a path-free port string return, for a non-root node,
\* the same node in every tree that differs only in the order of children.
C7_ReorderingDeterminism ==
    /\ (last.op = "get_sibling_subtree" /\ last.node # Root /\ OneOfType(last.t)) =>
          \A tr \in Reorderings(tree) :
              get_sibling_subtree(tr, last.node, last.t) = last.rnode
    /\ (last.op = "resolve_to_port" /\ last.node # Root /\ OneOfType(last.t)
            /\ PathFree(last.conn)) =>
          \A tr \in Reorderings(tree) :
              LET r == resolve_to_port(tr, last.node, last.t, last.conn)
              IN  r.ok = last.ok /\ r.node = last.rnode /\ r.port = last.rlist

\* the target is found behind an earlier sibling, in a tree with another order
C7_Witness ==
    /\ last.op = "resolve_to_port" /\ last.node # Root /\ OneOfType(last.t)
    /\ PathFree(last.conn)
    /\ last.ok /\ last.rnode # last.node
    /\ \E k \in nodes : Len(tree[k]) >= 2 /\ last.rnode = tree[k][2]

(* ------------------------- C9 ------------------------------------------- *)
SiblingCall ==
    /\ SiblingUnique
    /\ last.op = "get_sibling_subtree"
    /\ last.node # Root

\* the positions, in the ancestors of the node of the last call, of those that
\* have a direct child of the wanted type
LevelsWithChild ==
    {i \in 1..Len(AncestorSeq(last.node)) :
        \E c \in Children(tree, AncestorSeq(last.node)[i]) : type[c] = last.t}

\* ... and of those whose subtree, themselves included, has a node of that type
LevelsWithNode ==
    {i \in 1..Len(AncestorSeq(last.node)) :
        \E m \in SubtreeNodes(tree, AncestorSeq(last.node)[i]) : type[m] = last.t}

\* C9 as stated: the node get_sibling_subtree locates is a direct child of the
\* nearest ancestor of n that has a direct child of the target type.
C9_DirectChildOfNearest ==
    (SiblingCall /\ last.t # 0 /\ last.ok) =>
        /\ LevelsWithChild # {}
        /\ last.rnode \in Children(tree, AncestorSeq(last.node)[IndexMin(LevelsWithChild)])
        /\ type[last.rnode] = last.t

\* C9 as amended: the node get_sibling_subtree locates is the first node of the
\* target type, in depth-first pre-order, of the subtree of the nearest ancestor
\* of n whose subtree (the ancestor included) has a node of that type; the call
\* raises when no ancestor has one.
C9_FirstInNearestSubtree ==
    SiblingCall =>
        IF LevelsWithNode = {} THEN ~last.ok
        ELSE /\ last.ok
             /\ last.rnode = FirstOfType(
                    PreOrder(tree, AncestorSeq(last.node)[IndexMin(LevelsWithNode)]),
                    last.t)

\* the node located is nested inside the subtree of a sibling
C9_Witness ==
    /\ SiblingCall
    /\ last.ok
    /\ last.rnode \notin Children(tree, ParentOf(last.node)) \cup {ParentOf(last.node)}
    /\ last.rnode \in SubtreeNodes(tree, ParentOf(last.node))

(* ------------------------- C10 ------------------------------------------ *)
\* C10: with types unique among siblings, resolve_from_port(n, s) with a type
\* path in s returns n or a descendant of n.
C10_FromPortInOwnSubtree ==
    (/\ SiblingUnique
     /\ last.op = "resolve_from_port"
     /\ last.node # Root
     /\ HasPath(last.conn)
     /\ last.ok
     /\ last.rnode # None) => last.rnode \in SubtreeNodes(tree, last.node)

(* ------------------------- C2 ------------------------------------------- *)
CrossCall ==
    /\ \A k \in {M1, A, B} : type[k] # type[C]
    /\ last.node = A
    /\ last.t = type[C]
    /\ \/ last.op = "get_sibling_subtree"
       \/ last.op = "resolve_to_port" /\ PathFree(last.conn)

CrossFindsC ==
    /\ last.ok
    /\ last.rnode = C
    /\ last.op = "resolve_to_port" => last.rlist = parse_connection(last.conn).name

\* C2 as stated: when no node of M1's subtree has the type of C,
\* get_sibling_subtree(A, type(C)) yields the level of C and
\* resolve_to_port(A, type(C), p) with a path-free p returns (C, p).
C2_CrossBoundary == (SiblingUnique /\ CrossCall) => CrossFindsC

\* C2 as amended: the same, when M2 does not have the type of C either.
C2_CrossBoundaryPastM2 == (CrossCall /\ type[M2] # type[C]) => CrossFindsC

C2_Witness ==
    /\ CrossCall
    /\ type[M2] # type[C]
    /\ type[A] # type[B] /\ type[M1] # type[M2]
    /\ last.op = "resolve_to_port"
    /\ last.rnode = C

(* ------------------------- C1 ------------------------------------------- *)
X == 1
Y == 2

\* Home(type 0) owns X(type 1), X owns Y(type 2); X declares the link
\* {from_port: "out#2", to_node_type: 2, to_port: "in"}
Scenario ==
    /\ nodes = 0..2
    /\ tree[Root] = <<X>> /\ tree[X] = <<Y>> /\ tree[Y] = <<>>
    /\ type[Root] = 0 /\ type[X] = 1 /\ type[Y] = 2
    /\ links[X] = << [from_port |-> port_out \o <<"#", "2">>,
                      to_node_type |-> 2, to_port |-> port_in] >>
    /\ links[Y] = <<>>

\* C1 as stated: one run on the scenario tree leaves exactly the link
\* (X, "out", Y, "in").
C1_ScenarioLinkFromX ==
    (Scenario /\ runs = 1) => hierarchy_links = << <<X, port_out, Y, port_in>> >>

\* C1 as amended: one run on the scenario tree leaves exactly the link
\* (Y, "out", Y, "in"): the path "#2" takes the from endpoint down to the leaf Y.
C1_ScenarioLinkFromY ==
    (Scenario /\ runs = 1) => hierarchy_links = << <<Y, port_out, Y, port_in>> >>

C1_Witness == Scenario /\ runs = 1 /\ status = "ok" /\ Len(hierarchy_links) = 1

(* ------------------------- C4 ------------------------------------------- *)
\* C4: a second run of resolve_hierarchy on the same resolver leaves get_links()
\* as it was after the first run.
C4_SecondRunSame ==
    [][(runs >= 1 /\ runs' = runs + 1) => hierarchy_links' = hierarchy_links]_vars

(* ------------------------- C6 ------------------------------------------- *)
\* the declared links <<node, link>> of the nodes of q, in the order of q and,
\* within a node, in declaration order
RECURSIVE DeclaredOf(_)
DeclaredOf(q) ==
    IF q = <<>> THEN <<>>
    ELSE [i \in 1..Len(links[Head(q)]) |-> <<Head(q), links[Head(q)][i]>>]
             \o DeclaredOf(Tail(q))

Declared == DeclaredOf(Tail(PreOrder(tree, Root)))

ResolvedOf(d) ==
    LET f == resolve_from_port(tree, d[1], d[2].from_port)
        t == resolve_to_port(tree, d[1], d[2].to_node_type, d[2].to_port)
    IN  <<f.node, f.port, t.node, t.port>>

\* C6: after one run that raised nothing, get_links() holds one resolved link
\* per declared link of every non-root node, in depth-first pre-order of the
\* declaring nodes and declaration order within a node; it is empty when no
\* node declares a link.
C6_OnePerDeclaredLinkInOrder ==
    (runs = 1 /\ status = "ok") =>
        /\ Len(hierarchy_links) = Len(Declared)
        /\ \A i \in 1..Len(Declared) : hierarchy_links[i] = ResolvedOf(Declared[i])
        /\ (\A k \in nodes : links[k] = <<>>) => hierarchy_links = <<>>

\* a node and a node of its subtree each declare a link, with different ports
C6_Witness ==
    /\ runs = 1 /\ status = "ok"
    /\ Len(hierarchy_links) = 2
    /\ hierarchy_links[1] # hierarchy_links[2]
    /\ \E k \in nodes \ {Root} : \E c \in Children(tree, k) :
           links[k] # <<>> /\ links[c] # <<>>

(* ------------------------- C8 ------------------------------------------- *)
\* C8: both endpoints of every link in the output are childless nodes of the
\* tree.
C8_EndpointsAreLeaves ==
    \A i \in 1..Len(hierarchy_links) :
        /\ hierarchy_links[i][1] \in nodes /\ IsLeaf(hierarchy_links[i][1])
        /\ hierarchy_links[i][3] \in nodes /\ IsLeaf(hierarchy_links[i][3])

====
